---- MODULE Spec2Model ----
(***************************************************************************)
(* Model of src/checkers/htmlchecker.py: the HTML checker of               *)
(* flatpak-external-data-checker.                                          *)
(*                                                                         *)
(* Strings are sequences of one-character strings.  A value that Python    *)
(* holds as Optional[str] is a string or NoneV.  A call that may raise is  *)
(* a record [exc, val]: exc = "none" when the call returned val.           *)
(***************************************************************************)
EXTENDS Integers, Sequences, FiniteSets, TLC

VARIABLES
    pc,                 \* position of the check coroutine
    cfg,                \* external_data.checker_data
    html,               \* text of the fetched page: its tokens in document order
    latest_version,     \* local of check
    latest_url,         \* local of check
    abs_url,            \* local of check, the latest_url of _update_version
    state,              \* external_data.state
    state0,             \* external_data.state when check was called
    new_version,        \* descriptor installed by external_data.set_new_version
    exc,                \* exception that left check, "none" if none
    pageFetches,        \* number of session.get(url) issued
    metaFetches,        \* number of get_extra_data_info_from_url issued
    stateWrites,        \* number of assignments to external_data.state
    setNewVersionCalls, \* number of calls of external_data.set_new_version
    metaResult,         \* outcome of the metadata fetch, as the collaborator reported it
    trace,              \* the steps of the check so far, in order
    selMatch,           \* _get_latest: the list pattern.findall(html) returned
    selKey,             \* _get_latest: the sort_key argument
    selResult,          \* _get_latest: outcome of the call
    va, vb,             \* version ordering: the two version strings
    vres,               \* version ordering: outcome of LooseVersion(va) < LooseVersion(vb)
    tt, tv,             \* _substitute_placeholders: template_string and version
    tres,               \* _substitute_placeholders: outcome of the call
    served,             \* what the servers answer: the pages and the metadata outcomes
    invocation,         \* number of the invocation of check on the record
    first,              \* how the first invocation on the record ended
    parked              \* the check of another record, suspended at an await

vars == <<pc, cfg, html, latest_version, latest_url, abs_url, state, state0, new_version, exc,
          pageFetches, metaFetches, stateWrites, setNewVersionCalls, metaResult, trace,
          selMatch, selKey, selResult, va, vb, vres, tt, tv, tres,
          served, invocation, first, parked>>

checkVars == <<pc, cfg, html, latest_version, latest_url, abs_url, state, state0, new_version, exc,
               pageFetches, metaFetches, stateWrites, setNewVersionCalls, metaResult, trace>>
selVars == <<selMatch, selKey, selResult>>
verVars == <<va, vb, vres>>
tmplVars == <<tt, tv, tres>>
envVars == <<served, invocation, first, parked>>

-----------------------------------------------------------------------------
(* Bounds *)

\* longest page, in pattern matches
MaxMatches == 2
\* longest version string enumerated exhaustively by the ordering check
MaxVerLen == 2
\* longest template enumerated exhaustively, in literals and placeholders
MaxTmplLen == 2

-----------------------------------------------------------------------------
(* Characters and strings *)

NoneV == <<"None">>

\* the characters used, in code-point order
CharOrder == <<"-", ".", "/", "0", "1", "2", "3", "4", "5", "6", "7", "8", "9",
               ":", "a", "b", "h", "p", "x">>

Ord(c) == CHOOSE i \in 1..Len(CharOrder) : CharOrder[i] = c

IsDigit(c) == c \in {"0", "1", "2", "3", "4", "5", "6", "7", "8", "9"}
IsLower(c) == c \in {"a", "b", "h", "p", "x"}

DigitVal(c) == Ord(c) - Ord("0")

\* int(s) for a run of digits
RECURSIVE StrToInt(_)
StrToInt(s) ==
    IF s = <<>> THEN 0
    ELSE 10 * StrToInt(SubSeq(s, 1, Len(s) - 1)) + DigitVal(s[Len(s)])

\* str(n) for a non-negative int
RECURSIVE IntToStr(_)
IntToStr(n) ==
    IF n < 10 THEN <<CharOrder[Ord("0") + n]>>
    ELSE IntToStr(n \div 10) \o <<CharOrder[Ord("0") + (n % 10)]>>

\* Python's < on str: lexicographic by code point
RECURSIVE StrLess(_, _)
StrLess(s, t) ==
    IF t = <<>> THEN FALSE
    ELSE IF s = <<>> THEN TRUE
    ELSE IF Head(s) # Head(t) THEN Ord(Head(s)) < Ord(Head(t))
    ELSE StrLess(Tail(s), Tail(t))

-----------------------------------------------------------------------------
(* distutils.version.LooseVersion, the sort key of check *)

\* the alternative of component_re = (\d+ | [a-z]+ | \.) a character belongs to
CharClass(c) ==
    IF IsDigit(c) THEN "digit"
    ELSE IF IsLower(c) THEN "alpha"
    ELSE IF c = "." THEN "dot"
    ELSE "other"

\* length of the longest prefix of s whose characters are all of class k
RECURSIVE RunLen(_, _)
RunLen(s, k) ==
    IF s = <<>> \/ CharClass(Head(s)) # k THEN 0
    ELSE 1 + RunLen(Tail(s), k)

\* a component of LooseVersion.version: an int for a run of digits, else a str
Component(run) ==
    IF IsDigit(run[1]) THEN [int |-> TRUE, n |-> StrToInt(run), s |-> <<>>]
    ELSE [int |-> FALSE, n |-> 0, s |-> run]

\* LooseVersion.parse: split at component_re, drop "" and ".", int() the digit runs
RECURSIVE Components(_)
Components(s) ==
    IF s = <<>> THEN <<>>
    ELSE IF CharClass(Head(s)) = "dot" THEN Components(Tail(s))
    ELSE LET n == RunLen(s, CharClass(Head(s)))
         IN  <<Component(SubSeq(s, 1, n))>> \o Components(SubSeq(s, n + 1, Len(s)))

\* LooseVersion(vstring): parse runs only "if vstring", else no .version attribute
LooseVersion(vstring) ==
    IF vstring = <<>> THEN [parsed |-> FALSE, version |-> <<>>]
    ELSE [parsed |-> TRUE, version |-> Components(vstring)]

\* first index at which lists x and y differ, 0 if one is a prefix of the other
FirstDiff(x, y) ==
    LET m == IF Len(x) < Len(y) THEN Len(x) ELSE Len(y)
        D == {i \in 1..m : x[i] # y[i]}
    IN  IF D = {} THEN 0 ELSE CHOOSE i \in D : \A j \in D : i <= j

\* Python's list comparison of two component lists: "lt", "eq", "gt", or the
\* TypeError of comparing an int with a str
ListCmp(x, y) ==
    LET i == FirstDiff(x, y)
    IN  IF i = 0
        THEN IF Len(x) < Len(y) THEN "lt" ELSE IF Len(x) = Len(y) THEN "eq" ELSE "gt"
        ELSE IF x[i].int # y[i].int THEN "TypeError"
        ELSE IF x[i].int THEN (IF x[i].n < y[i].n THEN "lt" ELSE "gt")
        ELSE IF StrLess(x[i].s, y[i].s) THEN "lt" ELSE "gt"

\* Version._cmp of two LooseVersion objects; reading .version of an object built
\* from "" raises AttributeError
VersionCmp(a, b) ==
    IF ~a.parsed \/ ~b.parsed THEN "AttributeError"
    ELSE ListCmp(a.version, b.version)

Raised(r) == r \in {"TypeError", "AttributeError"}

\* the descriptor of a record no new version was set on
NoDescriptor == [url |-> NoneV, checksum |-> "none", version |-> NoneV]

\* a pattern key that is absent from checker_data (else: the group count of the
\* compiled pattern)
Absent == -1

\* a checker_data without any of the optional keys
IdleConfig ==
    [type_ok |-> TRUE, pattern |-> Absent, version_pattern |-> Absent,
     url_pattern |-> Absent, url_template |-> NoneV, sort_matches |-> "absent"]

\* the check is not running
IdleCheck ==
    /\ pc = "idle"
    /\ cfg = IdleConfig
    /\ html = <<>>
    /\ latest_version = NoneV /\ latest_url = NoneV /\ abs_url = NoneV
    /\ state = "OK" /\ state0 = "OK" /\ new_version = NoDescriptor /\ exc = "none"
    /\ pageFetches = 0 /\ metaFetches = 0
    /\ stateWrites = 0 /\ setNewVersionCalls = 0
    /\ metaResult = [kind |-> "none", info |-> NoDescriptor]
    /\ trace = <<>>

-----------------------------------------------------------------------------
(* Version ordering on its own: the comparison applied to two version strings *)

VerAlphabet == {"0", "1", "a", ".", "-"}

StringsUpTo(n) == UNION {[1..k -> VerAlphabet] : k \in 0..n}

NamedVersions ==
    { <<"1", ".", "9">>, <<"1", ".", "1", "0">>, <<"1", ".", "2">>,
      <<"1", ".", "2", ".", "0">>, <<"1", ".", "2", ".", "1">>,
      <<"1", ".", "a">>, <<"1", "0">>, <<"9">> }

VersionStrings == StringsUpTo(MaxVerLen) \cup NamedVersions

\* a call of _get_latest that has not run yet
Pending == [exc |-> "pending", val |-> <<>>]

IdleSel == selMatch = <<>> /\ selKey = "None" /\ selResult = Pending

IdleVer == va = <<>> /\ vb = <<>> /\ vres = "pending"

IdleTmpl == tt = <<>> /\ tv = <<>> /\ tres = Pending

\* the frame of a check: its position, its locals and the record it was given
Running ==
    [pc |-> pc, cfg |-> cfg, html |-> html, latest_version |-> latest_version,
     latest_url |-> latest_url, abs_url |-> abs_url, state |-> state,
     state0 |-> state0, new_version |-> new_version, exc |-> exc,
     pageFetches |-> pageFetches, metaFetches |-> metaFetches,
     stateWrites |-> stateWrites, setNewVersionCalls |-> setNewVersionCalls,
     metaResult |-> metaResult, trace |-> trace]

\* the frame of no check
IdleFrame ==
    [pc |-> "idle", cfg |-> IdleConfig, html |-> <<>>, latest_version |-> NoneV,
     latest_url |-> NoneV, abs_url |-> NoneV, state |-> "OK",
     state0 |-> "OK", new_version |-> NoDescriptor, exc |-> "none",
     pageFetches |-> 0, metaFetches |-> 0,
     stateWrites |-> 0, setNewVersionCalls |-> 0,
     metaResult |-> [kind |-> "none", info |-> NoDescriptor], trace |-> <<>>]

\* no first invocation has ended
NoFirst ==
    [state |-> "OK", new_version |-> NoDescriptor, exc |-> "none", html |-> <<>>,
     metaResult |-> [kind |-> "none", info |-> NoDescriptor], trace |-> <<>>]

\* servers that are never asked
NoService == [pages |-> {}, infos |-> {}, errors |-> {}]

\* one record, checked once, by the only check in flight
OneCheck == invocation = 1 /\ first = NoFirst /\ parked = IdleFrame

IdleEnv == served = NoService /\ OneCheck

InitVer ==
    /\ IdleCheck /\ IdleSel /\ IdleTmpl /\ IdleEnv
    /\ va \in VersionStrings
    /\ vb \in VersionStrings
    /\ vres = "pending"

\* LooseVersion(va) < LooseVersion(vb), as max(match, key=LooseVersion) evaluates it
Compare ==
    /\ vres = "pending"
    /\ vres' = VersionCmp(LooseVersion(va), LooseVersion(vb))
    /\ UNCHANGED <<va, vb, checkVars, selVars, tmplVars, envVars>>

NextVer == Compare

SpecVer == InitVer /\ [][NextVer]_vars

-----------------------------------------------------------------------------
(* _get_latest *)

\* the sort_key values: None, LooseVersion, lambda m: LooseVersion(m[1]), and
\* the parameter's default, which is the object t.Optional[t.Callable]
SortKeys == {"None", "LooseVersion", "ComboKey", "Default"}

\* a combo key lambda m: LooseVersion(m[0]), computed from the URL group
KeyCall_FirstGroup(sort_key, m) ==
    IF sort_key = "Default" THEN [exc |-> "TypeError", val |-> LooseVersion(<<>>)]
    ELSE IF sort_key = "ComboKey" THEN [exc |-> "none", val |-> LooseVersion(m[1])]
    ELSE [exc |-> "none", val |-> LooseVersion(m)]

\* sort_key(m); calling the default object raises TypeError
KeyCall(sort_key, m) ==
    IF sort_key = "Default" THEN [exc |-> "TypeError", val |-> LooseVersion(<<>>)]
    ELSE IF sort_key = "ComboKey" THEN [exc |-> "none", val |-> LooseVersion(m[2])]
    ELSE [exc |-> "none", val |-> LooseVersion(m)]

\* the scan of max(match, key=sort_key) from item i on, best being the index of
\* the maximum so far: a later item replaces it only if its key is greater
RECURSIVE MaxScan(_, _, _, _)
MaxScan(match, sort_key, i, best) ==
    IF i > Len(match) THEN [exc |-> "none", val |-> <<match[best]>>]
    ELSE LET k == KeyCall(sort_key, match[i])
             c == VersionCmp(k.val, KeyCall(sort_key, match[best]).val)
         IN  IF k.exc # "none" THEN [exc |-> k.exc, val |-> <<>>]
             ELSE IF Raised(c) THEN [exc |-> c, val |-> <<>>]
             ELSE MaxScan(match, sort_key, i + 1, IF c = "gt" THEN i ELSE best)

\* max(match, key=sort_key) for a non-empty list
Max(match, sort_key) ==
    IF KeyCall(sort_key, match[1]).exc # "none"
    THEN [exc |-> KeyCall(sort_key, match[1]).exc, val |-> <<>>]
    ELSE MaxScan(match, sort_key, 2, 1)

\* _get_latest(html, pattern, sort_key), match being pattern.findall(html);
\* val is <<>> for None and <<m>> for the match m
_get_latest(match, sort_key) ==
    IF match = <<>> THEN [exc |-> "none", val |-> <<>>]
    ELSE IF sort_key = "None" \/ Len(match) = 1 THEN [exc |-> "none", val |-> <<match[1]>>]
    ELSE Max(match, sort_key)

-----------------------------------------------------------------------------
(* The page *)

\* what the patterns can capture on a page
PageVersions == { <<"1", ".", "9">>, <<"2", ".", "0">>, <<"1", "a">>, <<>> }
PageUrls == { <<"/", "a", "9">>, <<"/", "a", "2">>, <<"9">>, <<>> }

\* a page token: a link with its version, a bare version, or a bare link
Tokens ==
    { [u |-> <<"/", "a", "9">>, v |-> <<"1", ".", "9">>],
      [u |-> <<"/", "a", "2">>, v |-> <<"2", ".", "0">>],
      [u |-> <<>>, v |-> <<"1", ".", "9">>],
      [u |-> NoneV, v |-> <<"1", "a">>],
      [u |-> NoneV, v |-> <<>>],
      [u |-> <<"9">>, v |-> NoneV] }

SeqsUpTo(S, n) == UNION {[1..k -> S] : k \in 0..n}

Pages == SeqsUpTo(Tokens, MaxMatches)

RECURSIVE FilterMap(_, _)
FilterMap(page, which) ==
    IF page = <<>> THEN <<>>
    ELSE LET t == Head(page)
             rest == FilterMap(Tail(page), which)
         IN  IF which = "pattern"
             THEN (IF t.u # NoneV /\ t.v # NoneV THEN << <<t.u, t.v>> >> \o rest ELSE rest)
             ELSE IF which = "version-pattern"
             THEN (IF t.v # NoneV THEN <<t.v>> \o rest ELSE rest)
             ELSE (IF t.u # NoneV THEN <<t.u>> \o rest ELSE rest)

\* pattern.findall(html): the captures of every match, in document order; a
\* two-group pattern gives (url, version) pairs, a one-group pattern strings
findall(page, which) == FilterMap(page, which)

-----------------------------------------------------------------------------
(* _get_latest on its own: applied to a list of matches and a sort key *)

InitSel ==
    /\ IdleCheck /\ IdleVer /\ IdleTmpl /\ IdleEnv
    /\ selKey \in SortKeys
    /\ selMatch \in IF selKey = "ComboKey"
                    THEN SeqsUpTo(PageUrls \X PageVersions, MaxMatches)
                    ELSE SeqsUpTo(PageVersions \cup PageUrls, MaxMatches)
    /\ selResult = Pending

GetLatest ==
    /\ selResult = Pending
    /\ selResult' = _get_latest(selMatch, selKey)
    /\ UNCHANGED <<selMatch, selKey, checkVars, verVars, tmplVars, envVars>>

NextSel == GetLatest

SpecSel == InitSel /\ [][NextSel]_vars

-----------------------------------------------------------------------------
(* _substitute_placeholders *)

\* Python truthiness of an Optional[str]: neither None nor ""
Truthy(s) == s # NoneV /\ s # <<>>

\* the names f"version{i}" for i = 0, 1, ... and the aliases of i = 0, 1, 2
VersionNames == <<"$version0", "$version1", "$version2", "$version3", "$version4">>
Aliases == <<"$major", "$minor", "$patch">>

Placeholders ==
    {"$version"} \cup {VersionNames[i] : i \in 1..Len(VersionNames)}
                 \cup {Aliases[i] : i \in 1..Len(Aliases)}

\* tmpl_vars with "minor" set at i == 2 and "patch" at i == 1
TmplVars_SwappedAliases(version) ==
    LET version_list == LooseVersion(version).version
        n == Len(version_list)
        Str(c) == IF c.int THEN IntToStr(c.n) ELSE c.s
        Swapped == <<"$major", "$patch", "$minor">>
        Names == {"$version"} \cup {VersionNames[i] : i \in 1..n}
                              \cup {Swapped[i] : i \in 1..(IF n < 3 THEN n ELSE 3)}
    IN  [name \in Names |->
            IF name = "$version" THEN version
            ELSE Str(version_list[CHOOSE i \in 1..n :
                        VersionNames[i] = name \/ (i <= 3 /\ Swapped[i] = name)])]

\* tmpl_vars, each value as Template.substitute renders it with str()
TmplVars(version) ==
    LET version_list == LooseVersion(version).version
        n == Len(version_list)
        Str(c) == IF c.int THEN IntToStr(c.n) ELSE c.s
        Names == {"$version"} \cup {VersionNames[i] : i \in 1..n}
                              \cup {Aliases[i] : i \in 1..(IF n < 3 THEN n ELSE 3)}
    IN  [name \in Names |->
            IF name = "$version" THEN version
            ELSE Str(version_list[CHOOSE i \in 1..n :
                        VersionNames[i] = name \/ (i <= 3 /\ Aliases[i] = name)])]

\* tmpl.substitute(**tmpl_vars): a template is its literal characters and
\* placeholders in order; a placeholder without a value raises KeyError
RECURSIVE Substitute(_, _)
Substitute(tmpl, tmpl_vars) ==
    IF tmpl = <<>> THEN [exc |-> "none", val |-> <<>>]
    ELSE LET rest == Substitute(Tail(tmpl), tmpl_vars)
         IN  IF Head(tmpl) \in Placeholders /\ Head(tmpl) \notin DOMAIN tmpl_vars
             THEN [exc |-> "KeyError", val |-> <<>>]
             ELSE IF rest.exc # "none" THEN rest
             ELSE IF Head(tmpl) \in Placeholders
             THEN [exc |-> "none", val |-> tmpl_vars[Head(tmpl)] \o rest.val]
             ELSE [exc |-> "none", val |-> <<Head(tmpl)>> \o rest.val]

_substitute_placeholders(template_string, version) ==
    Substitute(template_string, TmplVars(version))

-----------------------------------------------------------------------------
(* _substitute_placeholders on its own: applied to a template and a version *)

\* the literals and placeholders of the templates
TmplParts ==
    {"/", "$version", "$major", "$minor", "$patch", "$version0", "$version1", "$version3"}

NamedTemplates ==
    { <<"/", "$major", ".", "$minor", "/", "$version">>,
      <<"/", "$version2", "-", "$patch">> }

TemplateStrings == UNION {[1..k -> TmplParts] : k \in 0..MaxTmplLen} \cup NamedTemplates

\* check expands templates with a version that is not empty
TmplVersions ==
    { <<"3", ".", "4", ".", "5">>, <<"3", ".", "4">>, <<"7">>, <<"1", "a">>,
      <<"1", ".", "0", "1">> }

InitTmpl ==
    /\ IdleCheck /\ IdleSel /\ IdleVer /\ IdleEnv
    /\ tt \in TemplateStrings
    /\ tv \in TmplVersions
    /\ tres = Pending

Expand ==
    /\ tres = Pending
    /\ tres' = _substitute_placeholders(tt, tv)
    /\ UNCHANGED <<tt, tv, checkVars, selVars, verVars, envVars>>

NextTmpl == Expand

SpecTmpl == InitTmpl /\ [][NextTmpl]_vars

-----------------------------------------------------------------------------
(* check *)

\* checker_data["url"]
PageUrl == <<"h", ":", "/", "p", "/", "x">>

\* urllib.parse.urljoin(base, url): an empty url gives base, an url with a scheme
\* is returned as it is, a path that starts with "/" replaces the path of base, any
\* other path replaces the last segment of base
urljoin(base, url) ==
    LET colon == CHOOSE i \in 1..Len(base) : base[i] = ":"
        slash == CHOOSE i \in 1..Len(base) :
                    base[i] = "/" /\ \A j \in (i + 1)..Len(base) : base[j] # "/"
    IN  IF url = <<>> THEN base
        ELSE IF \E i \in 1..Len(url) : url[i] = ":" THEN url
        ELSE IF url[1] = "/" THEN SubSeq(base, 1, colon) \o url
        ELSE SubSeq(base, 1, slash) \o url

Templates ==
    { NoneV, <<>>, <<"/", "a", "$version">>, <<"/", "$major", "-", "$patch">> }

\* checker_data: a pattern key holds the group count of its pattern or Absent
Configs ==
    [ type_ok : BOOLEAN,
      pattern : {Absent, 1, 2},
      version_pattern : {Absent, 1, 2},
      url_pattern : {Absent, 1, 2},
      url_template : Templates,
      sort_matches : {"absent", "true", "false"} ]

\* checker_data.get("sort-matches", False)
SortMatches_DefaultFalse(c) ==
    IF c.sort_matches = "absent" THEN FALSE ELSE c.sort_matches = "true"

\* checker_data.get("sort-matches", True)
SortMatches(c) == IF c.sort_matches = "absent" THEN TRUE ELSE c.sort_matches = "true"

\* the two assertions before the page fetch
Precondition(c) ==
    /\ c.type_ok
    /\ \/ c.pattern # Absent
       \/ c.version_pattern # Absent
            /\ (c.url_pattern # Absent \/ Truthy(c.url_template))

Result(e, version, url) == [exc |-> e, version |-> version, url |-> url]

\* optional value of a _get_latest result
OrNone(r) == IF r.val = <<>> THEN NoneV ELSE r.val[1]

\* the version-pattern branch of check, after latest_version is known
ExtractUrl(c, page, version) ==
    IF Truthy(version) /\ Truthy(c.url_template)
    THEN LET r == _substitute_placeholders(c.url_template, version)
         IN  IF r.exc # "none" THEN Result(r.exc, version, NoneV)
             ELSE Result("none", version, r.val)
    ELSE IF c.url_pattern # Absent
    THEN IF c.url_pattern # 1 THEN Result("AssertionError", version, NoneV)
         ELSE LET r == _get_latest(findall(page, "url-pattern"),
                                   IF SortMatches(c) THEN "LooseVersion" ELSE "None")
              IN  IF r.exc # "none" THEN Result(r.exc, version, NoneV)
                  ELSE Result("none", version, OrNone(r))
    ELSE Result("none", version, NoneV)

\* the extraction of check: latest_version and latest_url, or the exception raised
Extract(c, page) ==
    IF c.pattern # Absent
    THEN IF c.pattern # 2 THEN Result("AssertionError", NoneV, NoneV)
         ELSE LET r == _get_latest(findall(page, "pattern"),
                                   IF SortMatches(c) THEN "ComboKey" ELSE "None")
              IN  IF r.exc # "none" THEN Result(r.exc, NoneV, NoneV)
                  ELSE IF r.val = <<>> THEN Result("none", NoneV, NoneV)
                  ELSE Result("none", r.val[1][2], r.val[1][1])
    ELSE IF c.version_pattern # Absent
    THEN IF c.version_pattern # 1 THEN Result("AssertionError", NoneV, NoneV)
         ELSE LET r == _get_latest(findall(page, "version-pattern"),
                                   IF SortMatches(c) THEN "LooseVersion" ELSE "None")
              IN  IF r.exc # "none" THEN Result(r.exc, NoneV, NoneV)
                  ELSE ExtractUrl(c, page, OrNone(r))
    ELSE Result("none", NoneV, NoneV)

\* "if not latest_version and not latest_url"
Missing_And(version, url) == ~Truthy(version) /\ ~Truthy(url)

\* "if latest_version is None or latest_url is None"
Missing_IsNone(version, url) == version = NoneV \/ url = NoneV

\* "if not latest_version or not latest_url"
Missing(version, url) == ~Truthy(version) \/ ~Truthy(url)

\* no outcome of a metadata fetch yet
NoMeta == [kind |-> "none", info |-> NoDescriptor]

\* what get_extra_data_info_from_url can return for an url: the metadata of
\* the resource, with a version of its own or none
MetaInfos(url) ==
    [ url : {url}, checksum : {"c1", "c2"}, version : {NoneV, <<"9">>} ]

\* the exceptions named by the except clause of _update_version
CaughtErrors ==
    {"ClientError", "ServerConnectionError", "ServerDisconnectedError", "ServerTimeoutError"}

\* the exceptions a fetch can end with: the transport errors and any other
FetchErrors == CaughtErrors \cup {"OtherError"}

\* an except clause that names the server errors only
Caught_ServerOnly(e) ==
    e \in {"ServerConnectionError", "ServerDisconnectedError", "ServerTimeoutError"}

Caught(e) == e \in CaughtErrors

\* external_data.set_new_version(descriptor)
set_new_version(d) == d

\* servers that can answer with any page, any metadata and any error
FullService ==
    [pages |-> Pages,
     infos |-> [checksum : {"c1", "c2"}, version : {NoneV, <<"9">>}],
     errors |-> FetchErrors]

\* the descriptors the metadata server answers with for an url
ServedInfos(url) ==
    {i \in MetaInfos(url) :
        [checksum |-> i.checksum, version |-> i.version] \in served.infos}

Init ==
    /\ IdleSel /\ IdleVer /\ IdleTmpl
    /\ served = FullService /\ OneCheck
    /\ pc = "start"
    /\ cfg \in Configs
    /\ html = <<>>
    /\ latest_version = NoneV /\ latest_url = NoneV /\ abs_url = NoneV
    /\ state0 \in {"OK", "BROKEN"}
    /\ state = state0
    /\ new_version = NoDescriptor
    /\ exc = "none"
    /\ pageFetches = 0 /\ metaFetches = 0
    /\ stateWrites = 0 /\ setNewVersionCalls = 0
    /\ metaResult = NoMeta
    /\ trace = <<>>

\* check raises at one of its first two assertions
CheckAssertFail ==
    /\ pc = "start"
    /\ ~Precondition(cfg)
    /\ pc' = "done"
    /\ exc' = "AssertionError"
    /\ trace' = trace \o <<"assert_fail">>
    /\ UNCHANGED <<cfg, html, latest_version, latest_url, abs_url, state, state0,
                   new_version, pageFetches, metaFetches, stateWrites,
                   setNewVersionCalls, metaResult, selVars, verVars, tmplVars, envVars>>

\* check passes the assertions and awaits session.get(url)
CheckFetchPage ==
    /\ pc = "start"
    /\ Precondition(cfg)
    /\ pc' = "page_fetch"
    /\ pageFetches' = pageFetches + 1
    /\ trace' = trace \o <<"page_fetch">>
    /\ UNCHANGED <<cfg, html, latest_version, latest_url, abs_url, state, state0,
                   new_version, exc, metaFetches, stateWrites,
                   setNewVersionCalls, metaResult, selVars, verVars, tmplVars, envVars>>

\* a page fetch wrapped in the try/except of _update_version
PageFetchFail_Caught ==
    /\ pc = "page_fetch"
    /\ \E e \in served.errors :
         IF Caught(e)
         THEN /\ state' = "BROKEN"
              /\ stateWrites' = stateWrites + 1
              /\ UNCHANGED exc
         ELSE /\ exc' = e
              /\ UNCHANGED <<state, stateWrites>>
    /\ pc' = "done"
    /\ trace' = trace \o <<"page_fail">>
    /\ UNCHANGED <<cfg, html, latest_version, latest_url, abs_url, state0,
                   new_version, pageFetches, metaFetches,
                   setNewVersionCalls, metaResult, selVars, verVars, tmplVars, envVars>>

\* the page fetch raises: nothing in check catches it
PageFetchFail ==
    /\ pc = "page_fetch"
    /\ \E e \in served.errors : exc' = e
    /\ pc' = "done"
    /\ trace' = trace \o <<"page_fail">>
    /\ UNCHANGED <<cfg, html, latest_version, latest_url, abs_url, state, state0,
                   new_version, pageFetches, metaFetches, stateWrites,
                   setNewVersionCalls, metaResult, selVars, verVars, tmplVars, envVars>>

\* the page arrives and the extraction raises
PageExtractRaise ==
    /\ pc = "page_fetch"
    /\ \E page \in served.pages :
         LET r == Extract(cfg, page)
         IN  /\ r.exc # "none"
             /\ html' = page
             /\ exc' = r.exc
             /\ latest_version' = r.version
             /\ latest_url' = r.url
    /\ pc' = "done"
    /\ trace' = trace \o <<"page_ok", "extract_raise">>
    /\ UNCHANGED <<cfg, abs_url, state, state0, new_version, pageFetches, metaFetches,
                   stateWrites, setNewVersionCalls, metaResult, selVars, verVars, tmplVars, envVars>>

\* the page arrives and the extraction gives no version or no URL: check returns
PageExtractMiss ==
    /\ pc = "page_fetch"
    /\ \E page \in served.pages :
         LET r == Extract(cfg, page)
         IN  /\ r.exc = "none"
             /\ Missing(r.version, r.url)
             /\ html' = page
             /\ latest_version' = r.version
             /\ latest_url' = r.url
    /\ pc' = "done"
    /\ trace' = trace \o <<"page_ok", "extracted", "return">>
    /\ UNCHANGED <<cfg, abs_url, state, state0, new_version, exc, pageFetches,
                   metaFetches, stateWrites, setNewVersionCalls, metaResult,
                   selVars, verVars, tmplVars, envVars>>

\* an _update_version that installs the page version before it awaits the
\* metadata fetch
PageExtractResolve_WriteFirst ==
    /\ pc = "page_fetch"
    /\ \E page \in served.pages :
         LET r == Extract(cfg, page)
         IN  /\ r.exc = "none"
             /\ ~Missing(r.version, r.url)
             /\ html' = page
             /\ latest_version' = r.version
             /\ latest_url' = r.url
             /\ abs_url' = urljoin(PageUrl, r.url)
             /\ new_version' = set_new_version([NoDescriptor EXCEPT !.version = r.version])
    /\ setNewVersionCalls' = setNewVersionCalls + 1
    /\ pc' = "meta_fetch"
    /\ metaFetches' = metaFetches + 1
    /\ trace' = trace \o <<"page_ok", "extracted", "set_new_version", "meta_fetch">>
    /\ UNCHANGED <<cfg, state, state0, exc, pageFetches,
                   stateWrites, metaResult, selVars, verVars, tmplVars, envVars>>

\* the page arrives, the extraction gives a version and an URL, and
\* _update_version passes its assertions and awaits get_extra_data_info_from_url
PageExtractResolve ==
    /\ pc = "page_fetch"
    /\ \E page \in served.pages :
         LET r == Extract(cfg, page)
         IN  /\ r.exc = "none"
             /\ ~Missing(r.version, r.url)
             /\ html' = page
             /\ latest_version' = r.version
             /\ latest_url' = r.url
             /\ IF r.version = NoneV \/ r.url = NoneV
                THEN /\ exc' = "AssertionError"
                     /\ pc' = "done"
                     /\ trace' = trace \o <<"page_ok", "extracted", "assert_fail">>
                     /\ UNCHANGED <<abs_url, metaFetches>>
                ELSE /\ abs_url' = urljoin(PageUrl, r.url)
                     /\ pc' = "meta_fetch"
                     /\ metaFetches' = metaFetches + 1
                     /\ trace' = trace \o <<"page_ok", "extracted", "meta_fetch">>
                     /\ UNCHANGED exc
    /\ UNCHANGED <<cfg, state, state0, new_version, pageFetches,
                   stateWrites, setNewVersionCalls, metaResult, selVars, verVars, tmplVars, envVars>>

\* an else branch that installs the descriptor as fetched
MetaFetchOk_NoReplace ==
    /\ pc = "meta_fetch"
    /\ \E info \in ServedInfos(abs_url) :
         /\ metaResult' = [kind |-> "ok", info |-> info]
         /\ new_version' = set_new_version(info)
    /\ setNewVersionCalls' = setNewVersionCalls + 1
    /\ pc' = "done"
    /\ trace' = trace \o <<"meta_ok", "set_new_version", "return">>
    /\ UNCHANGED <<cfg, html, latest_version, latest_url, abs_url, state, state0, exc,
                   pageFetches, metaFetches, stateWrites, selVars, verVars, tmplVars, envVars>>

\* the metadata fetch returns: the else branch of _update_version
MetaFetchOk ==
    /\ pc = "meta_fetch"
    /\ \E info \in ServedInfos(abs_url) :
         /\ metaResult' = [kind |-> "ok", info |-> info]
         /\ new_version' = set_new_version([info EXCEPT !.version = latest_version])
    /\ setNewVersionCalls' = setNewVersionCalls + 1
    /\ pc' = "done"
    /\ trace' = trace \o <<"meta_ok", "set_new_version", "return">>
    /\ UNCHANGED <<cfg, html, latest_version, latest_url, abs_url, state, state0, exc,
                   pageFetches, metaFetches, stateWrites, selVars, verVars, tmplVars, envVars>>

\* an except branch that falls through to set_new_version
MetaFetchFail_Both ==
    /\ pc = "meta_fetch"
    /\ \E e \in served.errors :
         /\ metaResult' = [kind |-> e, info |-> NoDescriptor]
         /\ IF Caught(e)
            THEN /\ state' = "BROKEN"
                 /\ stateWrites' = stateWrites + 1
                 /\ new_version' = set_new_version(
                        [NoDescriptor EXCEPT !.version = latest_version])
                 /\ setNewVersionCalls' = setNewVersionCalls + 1
                 /\ trace' = trace \o <<"meta_fail", "state_broken",
                                         "set_new_version", "return">>
                 /\ UNCHANGED exc
            ELSE /\ exc' = e
                 /\ trace' = trace \o <<"meta_fail">>
                 /\ UNCHANGED <<state, stateWrites, new_version, setNewVersionCalls>>
    /\ pc' = "done"
    /\ UNCHANGED <<cfg, html, latest_version, latest_url, abs_url, state0,
                   pageFetches, metaFetches, selVars, verVars, tmplVars, envVars>>

\* a handler that marks the record BROKEN for every exception and re-raises
\* the ones the except clause does not name
MetaFetchFail_BrokenThenRaise ==
    /\ pc = "meta_fetch"
    /\ \E e \in served.errors :
         /\ metaResult' = [kind |-> e, info |-> NoDescriptor]
         /\ state' = "BROKEN"
         /\ stateWrites' = stateWrites + 1
         /\ IF Caught(e)
            THEN /\ trace' = trace \o <<"meta_fail", "state_broken", "return">>
                 /\ UNCHANGED exc
            ELSE /\ exc' = e
                 /\ trace' = trace \o <<"meta_fail", "state_broken">>
    /\ pc' = "done"
    /\ UNCHANGED <<cfg, html, latest_version, latest_url, abs_url, state0, new_version,
                   pageFetches, metaFetches, setNewVersionCalls, selVars, verVars, tmplVars, envVars>>

\* an except branch that issues the metadata fetch a second time before it
\* gives up
MetaFetchFail_Retry ==
    /\ pc = "meta_fetch"
    /\ \E e \in served.errors :
         /\ metaResult' = [kind |-> e, info |-> NoDescriptor]
         /\ IF Caught(e) /\ metaFetches < 2
            THEN /\ metaFetches' = metaFetches + 1
                 /\ pc' = "meta_fetch"
                 /\ trace' = trace \o <<"meta_fail", "meta_fetch">>
                 /\ UNCHANGED <<state, stateWrites, exc>>
            ELSE IF Caught(e)
            THEN /\ state' = "BROKEN"
                 /\ stateWrites' = stateWrites + 1
                 /\ pc' = "done"
                 /\ trace' = trace \o <<"meta_fail", "state_broken", "return">>
                 /\ UNCHANGED <<exc, metaFetches>>
            ELSE /\ exc' = e
                 /\ pc' = "done"
                 /\ trace' = trace \o <<"meta_fail">>
                 /\ UNCHANGED <<state, stateWrites, metaFetches>>
    /\ UNCHANGED <<cfg, html, latest_version, latest_url, abs_url, state0, new_version,
                   pageFetches, setNewVersionCalls, selVars, verVars, tmplVars, envVars>>

\* an except branch that flips the state of the record
MetaFetchFail_Toggle ==
    /\ pc = "meta_fetch"
    /\ \E e \in served.errors :
         /\ metaResult' = [kind |-> e, info |-> NoDescriptor]
         /\ IF Caught(e)
            THEN /\ state' = IF state = "BROKEN" THEN "OK" ELSE "BROKEN"
                 /\ stateWrites' = stateWrites + 1
                 /\ trace' = trace \o <<"meta_fail", "state_broken", "return">>
                 /\ UNCHANGED exc
            ELSE /\ exc' = e
                 /\ trace' = trace \o <<"meta_fail">>
                 /\ UNCHANGED <<state, stateWrites>>
    /\ pc' = "done"
    /\ UNCHANGED <<cfg, html, latest_version, latest_url, abs_url, state0, new_version,
                   pageFetches, metaFetches, setNewVersionCalls, selVars, verVars, tmplVars, envVars>>

\* the metadata fetch raises: the except branch of _update_version, or the
\* exception leaves check
MetaFetchFail ==
    /\ pc = "meta_fetch"
    /\ \E e \in served.errors :
         /\ metaResult' = [kind |-> e, info |-> NoDescriptor]
         /\ IF Caught(e)
            THEN /\ state' = "BROKEN"
                 /\ stateWrites' = stateWrites + 1
                 /\ trace' = trace \o <<"meta_fail", "state_broken", "return">>
                 /\ UNCHANGED exc
            ELSE /\ exc' = e
                 /\ trace' = trace \o <<"meta_fail">>
                 /\ UNCHANGED <<state, stateWrites>>
    /\ pc' = "done"
    /\ UNCHANGED <<cfg, html, latest_version, latest_url, abs_url, state0, new_version,
                   pageFetches, metaFetches, setNewVersionCalls, selVars, verVars, tmplVars, envVars>>

Next ==
    \/ CheckAssertFail
    \/ CheckFetchPage
    \/ PageFetchFail
    \/ PageExtractRaise
    \/ PageExtractMiss
    \/ PageExtractResolve
    \/ MetaFetchOk
    \/ MetaFetchFail

Spec == Init /\ [][Next]_vars

-----------------------------------------------------------------------------
(* check called a second time on the same record *)

\* the servers answer the second check as they answered the first: the same
\* page, the same metadata, the same error
Replay ==
    [pages |-> IF \E i \in 1..Len(trace) : trace[i] = "page_ok" THEN {html} ELSE {},
     infos |-> IF metaResult.kind = "ok"
               THEN {[checksum |-> metaResult.info.checksum,
                      version |-> metaResult.info.version]}
               ELSE {},
     errors |-> IF \E i \in 1..Len(trace) : trace[i] = "page_fail" THEN {exc}
                ELSE IF metaResult.kind \in FetchErrors THEN {metaResult.kind}
                ELSE {}]

\* the first check has ended and check is called again with the same record:
\* the record keeps its state and its descriptor, the locals are new
Restart ==
    /\ pc = "done" /\ invocation = 1
    /\ invocation' = 2
    /\ first' = [state |-> state, new_version |-> new_version, exc |-> exc,
                 html |-> html, metaResult |-> metaResult, trace |-> trace]
    /\ served' = Replay
    /\ pc' = "start"
    /\ html' = <<>>
    /\ latest_version' = NoneV /\ latest_url' = NoneV /\ abs_url' = NoneV
    /\ state0' = state
    /\ exc' = "none"
    /\ pageFetches' = 0 /\ metaFetches' = 0
    /\ stateWrites' = 0 /\ setNewVersionCalls' = 0
    /\ metaResult' = NoMeta
    /\ trace' = <<>>
    /\ UNCHANGED <<cfg, state, new_version, parked, selVars, verVars, tmplVars>>

NextTwice == Next \/ Restart

SpecTwice == Init /\ [][NextTwice]_vars

-----------------------------------------------------------------------------
(* two checks in flight, each with a record of its own *)

\* the configurations of the two records
ConcConfigs ==
    { IdleConfig,
      [IdleConfig EXCEPT !.pattern = 2],
      [IdleConfig EXCEPT !.version_pattern = 1, !.url_template = <<"/", "a", "$version">>] }

\* what the servers answer while the two checks run
ConcService ==
    [pages |-> { <<>>,
                 << [u |-> <<"/", "a", "9">>, v |-> <<"1", ".", "9">>] >>,
                 << [u |-> <<"/", "a", "9">>, v |-> <<"1", ".", "9">>],
                    [u |-> <<"/", "a", "2">>, v |-> <<"2", ".", "0">>] >>,
                 << [u |-> <<"/", "a", "9">>, v |-> <<"1", ".", "9">>],
                    [u |-> NoneV, v |-> <<"1", "a">>] >> },
     infos |-> {[checksum |-> "c1", version |-> NoneV], [checksum |-> "c2", version |-> <<"9">>]},
     errors |-> {"ClientError", "OtherError"}]

\* the frame of a check that was called and has not run yet
StartFrame(c, s) == [IdleFrame EXCEPT !.pc = "start", !.cfg = c, !.state = s, !.state0 = s]

InitConc ==
    /\ IdleSel /\ IdleVer /\ IdleTmpl
    /\ served = ConcService
    /\ invocation = 1 /\ first = NoFirst
    /\ \E c \in ConcConfigs, s \in {"OK", "BROKEN"} : parked = StartFrame(c, s)
    /\ pc = "start"
    /\ cfg \in ConcConfigs
    /\ html = <<>>
    /\ latest_version = NoneV /\ latest_url = NoneV /\ abs_url = NoneV
    /\ state0 \in {"OK", "BROKEN"}
    /\ state = state0
    /\ new_version = NoDescriptor
    /\ exc = "none"
    /\ pageFetches = 0 /\ metaFetches = 0
    /\ stateWrites = 0 /\ setNewVersionCalls = 0
    /\ metaResult = NoMeta
    /\ trace = <<>>

\* an event loop that resumes the other check with this check's latest_version,
\* as if the local were an attribute of the checker both checks share
Switch_SharedVersion ==
    /\ parked # IdleFrame
    /\ parked' = Running
    /\ pc' = parked.pc
    /\ cfg' = parked.cfg
    /\ html' = parked.html
    /\ latest_url' = parked.latest_url
    /\ abs_url' = parked.abs_url
    /\ state' = parked.state
    /\ state0' = parked.state0
    /\ new_version' = parked.new_version
    /\ exc' = parked.exc
    /\ pageFetches' = parked.pageFetches
    /\ metaFetches' = parked.metaFetches
    /\ stateWrites' = parked.stateWrites
    /\ setNewVersionCalls' = parked.setNewVersionCalls
    /\ metaResult' = parked.metaResult
    /\ trace' = parked.trace
    /\ UNCHANGED <<latest_version, served, invocation, first, selVars, verVars, tmplVars>>

\* the running check is suspended at its await (or has not started, or is
\* over) and the event loop resumes the other check: each coroutine has its
\* own locals and its own external_data
Switch ==
    /\ parked # IdleFrame
    /\ parked' = Running
    /\ pc' = parked.pc
    /\ cfg' = parked.cfg
    /\ html' = parked.html
    /\ latest_version' = parked.latest_version
    /\ latest_url' = parked.latest_url
    /\ abs_url' = parked.abs_url
    /\ state' = parked.state
    /\ state0' = parked.state0
    /\ new_version' = parked.new_version
    /\ exc' = parked.exc
    /\ pageFetches' = parked.pageFetches
    /\ metaFetches' = parked.metaFetches
    /\ stateWrites' = parked.stateWrites
    /\ setNewVersionCalls' = parked.setNewVersionCalls
    /\ metaResult' = parked.metaResult
    /\ trace' = parked.trace
    /\ UNCHANGED <<served, invocation, first, selVars, verVars, tmplVars>>

NextConc == Next \/ Switch

SpecConc == InitConc /\ [][NextConc]_vars

-----------------------------------------------------------------------------
(* Properties *)

Happened(ev) == \E i \in 1..Len(trace) : trace[i] = ev

Mutations == stateWrites + setNewVersionCalls

RecordUntouched ==
    /\ stateWrites = 0 /\ setNewVersionCalls = 0
    /\ state = state0 /\ new_version = NoDescriptor

TransportErrors ==
    {"ClientError", "ServerConnectionError", "ServerDisconnectedError", "ServerTimeoutError"}

\* C1, as claimed: every invocation of check that returns has mutated the record
\* exactly once (state set to BROKEN, or set_new_version called).
C1_ExactlyOncePerCheck ==
    (pc = "done" /\ exc = "none") => Mutations = 1

\* C1, amended: a check mutates the record at most once; it mutates it exactly
\* once when the metadata fetch has returned or has raised a caught transport
\* error (set_new_version in the first case, state = BROKEN in the second, never
\* both), and not at all when it ends before that or with an uncaught error.
C1_AtMostOnce ==
    /\ Mutations <= 1
    /\ pc = "done" =>
         (Mutations = 1 <=> metaResult.kind \in TransportErrors \cup {"ok"})
    /\ stateWrites = 1 =>
         state = "BROKEN" /\ new_version = NoDescriptor /\ metaResult.kind \in TransportErrors
    /\ setNewVersionCalls = 1 => state = state0 /\ metaResult.kind = "ok"
    /\ pc # "done" => RecordUntouched

C1_Witness ==
    /\ pc = "done" /\ exc = "none"
    /\ state0 = "OK" /\ state = "BROKEN"
    /\ stateWrites = 1 /\ setNewVersionCalls = 0

\* C2: when the metadata fetch fails with a transport error, the record's state
\* becomes BROKEN, set_new_version is not called, and check returns normally.
C2_TransportFailureIsBroken ==
    (pc = "done" /\ metaResult.kind \in TransportErrors) =>
        /\ state = "BROKEN"
        /\ setNewVersionCalls = 0
        /\ new_version = NoDescriptor
        /\ exc = "none"

C2_Witness ==
    /\ pc = "done"
    /\ metaResult.kind = "ClientError"
    /\ state0 = "OK" /\ state = "BROKEN"

\* C3: when the metadata fetch succeeds, set_new_version is called exactly once
\* with the fetched descriptor whose version is replaced by the version taken
\* from the page, whatever version the metadata call reported, and the state of
\* the record is not written.
C3_PageVersionOverrides ==
    (pc = "done" /\ metaResult.kind = "ok") =>
        /\ setNewVersionCalls = 1
        /\ new_version.version = latest_version
        /\ \E i \in 1..Len(html) : html[i].v = new_version.version
        /\ new_version.url = metaResult.info.url
        /\ new_version.checksum = metaResult.info.checksum
        /\ stateWrites = 0
        /\ state = state0
        /\ exc = "none"

C3_Witness ==
    /\ pc = "done"
    /\ metaResult.kind = "ok"
    /\ metaResult.info.version = <<"9">>
    /\ new_version.version = <<"2", ".", "0">>

\* the group counts the specification requires of the patterns check applies
GroupCountsValid(c) ==
    IF c.pattern # Absent THEN c.pattern = 2
    ELSE /\ c.version_pattern = 1
         /\ (c.url_pattern # Absent \/ Truthy(c.url_template))
         /\ (~Truthy(c.url_template) => c.url_pattern = 1)

\* a configuration that passes every validation rule, whichever patterns check
\* goes on to apply
PassedValidation(c) ==
    /\ Precondition(c)
    /\ c.pattern \in {Absent, 2}
    /\ c.version_pattern \in {Absent, 1}
    /\ c.url_pattern \in {Absent, 1}

\* the pattern that supplies the version, or the one that supplies the URL, has
\* no match on the page
SupplierHasNoMatch(c, page) ==
    IF c.pattern # Absent THEN findall(page, "pattern") = <<>>
    ELSE \/ findall(page, "version-pattern") = <<>>
         \/ ~Truthy(c.url_template) /\ findall(page, "url-pattern") = <<>>

\* C4: with a configuration that passed validation, an extraction that ends
\* with the version or the URL missing (the pattern that supplies it has no
\* match) makes check return normally, without a metadata fetch and without
\* touching the record.
C4_MissReturnsQuietly ==
    (/\ Happened("extracted")
     /\ PassedValidation(cfg)
     /\ \/ SupplierHasNoMatch(cfg, html)
        \/ latest_version = NoneV
        \/ latest_url = NoneV) =>
        /\ pc = "done"
        /\ exc = "none"
        /\ trace[Len(trace)] = "return"
        /\ metaFetches = 0 /\ metaResult.kind = "none"
        /\ RecordUntouched

C4_Witness ==
    /\ pc = "done" /\ exc = "none"
    /\ Happened("extracted")
    /\ PassedValidation(cfg)
    /\ latest_version = NoneV
    /\ latest_url = <<"9">>

\* C5: a configuration that breaks a validation rule (group counts included)
\* makes check fail before the page fetch is issued.
C5_ValidationBeforeFetch ==
    (cfg.type_ok /\ ~(Precondition(cfg) /\ GroupCountsValid(cfg))) => pageFetches = 0

\* C6: a failed page fetch leaves check as the exception it raised: nothing is
\* extracted, no metadata fetch is issued, and the record is as it was.
C6_PageFailurePropagates ==
    Happened("page_fail") =>
        /\ pc = "done"
        /\ exc \in FetchErrors
        /\ ~Happened("page_ok") /\ ~Happened("extracted")
        /\ html = <<>> /\ latest_version = NoneV /\ latest_url = NoneV
        /\ metaFetches = 0 /\ metaResult.kind = "none"
        /\ RecordUntouched

C6_Witness ==
    /\ Happened("page_fail")
    /\ exc = "ServerTimeoutError"
    /\ state0 = "BROKEN" /\ state = "BROKEN"

\* sort_key(m) for the keys that are orderings
KeyOf(sort_key, m) == LooseVersion(IF sort_key = "ComboKey" THEN m[2] ELSE m)

\* m[i] is the first of the matches whose key is maximal
StableMax(m, sort_key, i) ==
    /\ \A j \in 1..Len(m) :
         VersionCmp(KeyOf(sort_key, m[j]), KeyOf(sort_key, m[i])) \in {"lt", "eq"}
    /\ \A j \in 1..(i - 1) :
         VersionCmp(KeyOf(sort_key, m[j]), KeyOf(sort_key, m[i])) = "lt"

\* C7: _get_latest returns None for no match, the first match for one match or
\* when no ordering is supplied, and otherwise the first of the matches whose
\* key is maximal under the ordering.
C7_GetLatestSelects ==
    selResult # Pending =>
        /\ selResult.exc = "none"
        /\ selMatch = <<>> => selResult.val = <<>>
        /\ (selMatch # <<>> /\ (Len(selMatch) = 1 \/ selKey \in {"None", "Default"}))
              => selResult.val = <<selMatch[1]>>
        /\ (Len(selMatch) > 1 /\ selKey \in {"LooseVersion", "ComboKey"})
              => \E i \in 1..Len(selMatch) :
                    /\ selResult.val = <<selMatch[i]>>
                    /\ StableMax(selMatch, selKey, i)

\* the extraction of check has run to its end
Extracted == Happened("extracted")

\* the url pattern was applied by the extraction that has run
UrlPatternApplied ==
    /\ cfg.pattern = Absent /\ cfg.url_pattern # Absent
    /\ ~(Truthy(latest_version) /\ Truthy(cfg.url_template))

\* what each pattern the extraction applied has selected is the first match
FirstSelected ==
    /\ (cfg.pattern # Absent /\ findall(html, "pattern") # <<>>) =>
          <<latest_url, latest_version>> = findall(html, "pattern")[1]
    /\ (cfg.pattern = Absent /\ findall(html, "version-pattern") # <<>>) =>
          latest_version = findall(html, "version-pattern")[1]
    /\ (UrlPatternApplied /\ findall(html, "url-pattern") # <<>>) =>
          latest_url = findall(html, "url-pattern")[1]

\* sel is the first of the matches m that are maximal in version order
LatestOf(m, sort_key, sel) ==
    IF Len(m) = 1 THEN sel = m[1]
    ELSE \E i \in 1..Len(m) : sel = m[i] /\ StableMax(m, sort_key, i)

\* what each pattern the extraction applied has selected is its latest match
LatestSelected ==
    /\ (cfg.pattern # Absent /\ findall(html, "pattern") # <<>>) =>
          LatestOf(findall(html, "pattern"), "ComboKey", <<latest_url, latest_version>>)
    /\ (cfg.pattern = Absent /\ findall(html, "version-pattern") # <<>>) =>
          LatestOf(findall(html, "version-pattern"), "LooseVersion", latest_version)
    /\ (UrlPatternApplied /\ findall(html, "url-pattern") # <<>>) =>
          LatestOf(findall(html, "url-pattern"), "LooseVersion", latest_url)

\* C8: sort-matches gates the version ordering in every selection of check: set
\* to false, each applied pattern selects its first match in page order; absent,
\* it counts as true and each applied pattern selects its latest match.
C8_SortMatchesGatesOrdering ==
    Extracted =>
        /\ cfg.sort_matches = "false" => FirstSelected
        /\ cfg.sort_matches \in {"absent", "true"} => LatestSelected

C8_Witness ==
    /\ Extracted
    /\ cfg.sort_matches = "false"
    /\ cfg.pattern = Absent /\ cfg.url_pattern = 1 /\ cfg.url_template = NoneV
    /\ findall(html, "url-pattern") = << <<"/", "a", "2">>, <<"/", "a", "9">> >>
    /\ latest_url = <<"/", "a", "2">>

\* C9: comparing two version strings never raises and always orders them.
C9_TotalNeverRaises ==
    vres # "pending" => vres \in {"lt", "eq", "gt"}

\* C10: "1.9" < "1.10" and "1.2" < "1.2.1" hold, "1.2" < "1.2.0" does not, and
\* the empty string is not greater than any version string.
C10_PaddedOrdering ==
    vres # "pending" =>
        /\ (va = <<"1", ".", "9">> /\ vb = <<"1", ".", "1", "0">>) => vres = "lt"
        /\ (va = <<"1", ".", "2">> /\ vb = <<"1", ".", "2", ".", "1">>) => vres = "lt"
        /\ (va = <<"1", ".", "2">> /\ vb = <<"1", ".", "2", ".", "0">>) => vres # "lt"
        /\ va = <<>> => vres \in {"lt", "eq"}

\* the value the claimed mapping holds for a placeholder, rendered as text
ClaimedValue(name, version) ==
    LET c == Components(version)
        Text(x) == IF x.int THEN IntToStr(x.n) ELSE x.s
    IN  CASE name = "$version" -> version
          [] name \in {"$major", "$version0"} -> Text(c[1])
          [] name \in {"$minor", "$version1"} -> Text(c[2])
          [] name \in {"$patch", "$version2"} -> Text(c[3])
          [] name = "$version3" -> Text(c[4])
          [] name = "$version4" -> Text(c[5])

\* the claimed mapping has a value for a placeholder
ClaimedHas(name, version) ==
    LET n == Len(Components(version))
    IN  \/ name = "$version"
        \/ name \in {"$major", "$version0"} /\ n >= 1
        \/ name \in {"$minor", "$version1"} /\ n >= 2
        \/ name \in {"$patch", "$version2"} /\ n >= 3
        \/ name = "$version3" /\ n >= 4
        \/ name = "$version4" /\ n >= 5

\* the template with every placeholder replaced by its claimed value
RECURSIVE ClaimedExpansion(_, _)
ClaimedExpansion(tmpl, version) ==
    IF tmpl = <<>> THEN <<>>
    ELSE LET last == tmpl[Len(tmpl)]
             front == ClaimedExpansion(SubSeq(tmpl, 1, Len(tmpl) - 1), version)
         IN  IF last \in Placeholders THEN front \o ClaimedValue(last, version)
             ELSE front \o <<last>>

\* C11: _substitute_placeholders substitutes version, version<i>, and
\* major/minor/patch for the components 0/1/2 that exist, and it raises, with
\* no URL, exactly when the template names a placeholder without a value.
C11_TemplateExpansion ==
    tres # Pending =>
        /\ tres.exc # "none" <=>
              \E k \in 1..Len(tt) : tt[k] \in Placeholders /\ ~ClaimedHas(tt[k], tv)
        /\ tres.exc # "none" => tres.exc = "KeyError" /\ tres.val = <<>>
        /\ tres.exc = "none" => tres.val = ClaimedExpansion(tt, tv)
        /\ (tt = <<"/", "$major", ".", "$minor", "/", "$version">>
              /\ tv = <<"3", ".", "4", ".", "5">>) =>
              tres.val = <<"/", "3", ".", "4", "/", "3", ".", "4", ".", "5">>

C11_Witness ==
    /\ tt = <<"/", "$version2", "-", "$patch">>
    /\ tv = <<"3", ".", "4">>
    /\ tres.exc = "KeyError"

\* the second check has ended after the same page fetch outcome, page text and
\* metadata fetch outcome as the first
SameInputs ==
    /\ invocation = 2 /\ pc = "done"
    /\ html = first.html
    /\ metaResult = first.metaResult
    /\ Happened("page_fail") <=> \E i \in 1..Len(first.trace) : first.trace[i] = "page_fail"

\* C12: a second check of the same record, with the same configuration, page
\* text and metadata fetch outcome, ends with the record in the state and with
\* the version descriptor the first check left it with.
C12_SecondRunSameState ==
    SameInputs => state = first.state /\ new_version = first.new_version

C12_Witness ==
    /\ SameInputs
    /\ first.metaResult.kind = "ServerTimeoutError"
    /\ first.trace[Len(first.trace)] = "return"
    /\ state = "BROKEN"
    /\ Happened("state_broken")

\* the position of the first ev in the trace, 0 if there is none
Pos(ev) == IF Happened(ev) THEN CHOOSE i \in 1..Len(trace) :
                                   trace[i] = ev /\ \A j \in 1..(i - 1) : trace[j] # ev
           ELSE 0

\* ev happened only after prior had
After(ev, prior) == Happened(ev) => Happened(prior) /\ Pos(prior) < Pos(ev)

\* the record differs from what check was given, or a write to it was made
RecordWritten ==
    \/ stateWrites > 0 \/ setNewVersionCalls > 0
    \/ state # state0 \/ new_version # NoDescriptor
    \/ Happened("state_broken") \/ Happened("set_new_version")

\* C13: the steps of one check are ordered page fetch, extraction, metadata
\* fetch, record mutation: the metadata fetch is issued only after the page has
\* arrived and the extraction has given a version and a URL, and the record is
\* written only after the metadata fetch has completed, with metadata or with
\* an error.
C13_StepsInOrder ==
    /\ After("page_ok", "page_fetch")
    /\ After("extracted", "page_ok")
    /\ After("meta_fetch", "extracted")
    /\ After("meta_ok", "meta_fetch") /\ After("meta_fail", "meta_fetch")
    /\ After("state_broken", "meta_fail") /\ After("set_new_version", "meta_ok")
    /\ pageFetches > 0 <=> Happened("page_fetch")
    /\ metaFetches > 0 <=> Happened("meta_fetch")
    /\ metaFetches > 0 =>
         /\ pageFetches = 1 /\ Happened("page_ok")
         /\ Truthy(latest_version) /\ Truthy(latest_url)
         /\ Extract(cfg, html) = Result("none", latest_version, latest_url)
    /\ RecordWritten =>
         /\ metaFetches = 1
         /\ metaResult.kind # "none"
         /\ Happened("meta_ok") \/ Happened("meta_fail")

C13_Witness ==
    /\ trace = <<"page_fetch", "page_ok", "extracted", "meta_fetch", "meta_ok",
                 "set_new_version", "return">>
    /\ state0 = "BROKEN"
    /\ cfg.pattern = Absent /\ cfg.url_pattern = 1 /\ cfg.url_template = NoneV

\* the number of times ev is in the trace
Count(ev) == Cardinality({i \in 1..Len(trace) : trace[i] = ev})

\* C14: one check issues the page fetch at most once and the metadata fetch at
\* most once; once the metadata fetch has failed the check is over, with no
\* further fetch, and after a transport failure the record is BROKEN.
C14_NoRetries ==
    /\ pageFetches <= 1 /\ Count("page_fetch") <= 1
    /\ metaFetches <= 1 /\ Count("meta_fetch") <= 1
    /\ Happened("meta_fail") =>
         /\ pc = "done"
         /\ pageFetches = 1 /\ metaFetches = 1
         /\ trace[Len(trace)] \notin {"page_fetch", "meta_fetch"}
    /\ metaResult.kind \in TransportErrors =>
         /\ Happened("meta_fail")
         /\ state = "BROKEN" /\ stateWrites = 1

C14_Witness ==
    /\ pc = "done"
    /\ metaResult.kind = "ServerDisconnectedError"
    /\ pageFetches = 1 /\ metaFetches = 1
    /\ state = "BROKEN"

\* the selection of the latest version on the version-pattern path
VersionSelection(c, page) ==
    _get_latest(findall(page, "version-pattern"),
                IF SortMatches(c) THEN "LooseVersion" ELSE "None")

\* the version-pattern path with a URL template: the page has arrived and the
\* version pattern was applied without an error
TemplatePath ==
    /\ Happened("page_ok")
    /\ cfg.pattern = Absent /\ cfg.version_pattern = 1
    /\ Truthy(cfg.url_template)
    /\ VersionSelection(cfg, html).exc = "none"

\* C15: on the version-pattern path with a URL template configured, the URL
\* comes from expanding the template with the latest version only; the url
\* pattern is not applied and its group count is not checked, also when the
\* version pattern had no match.
C15_TemplateExcludesUrlPattern ==
    TemplatePath =>
        IF Truthy(latest_version)
        THEN LET r == _substitute_placeholders(cfg.url_template, latest_version)
             IN  /\ exc \in {"none", "KeyError"} \cup FetchErrors
                 /\ exc = "KeyError" <=> r.exc = "KeyError"
                 /\ r.exc = "none" => latest_url = r.val
        ELSE /\ exc = "none"
             /\ latest_url = NoneV
             /\ Happened("extracted")

\* the configuration with nothing but the combo pattern
ComboOnly(c) ==
    [c EXCEPT !.version_pattern = Absent, !.url_pattern = Absent, !.url_template = NoneV]

\* C16: with a combo pattern, the version pattern, the url pattern and the URL
\* template play no part; the version and the URL come from one and the same
\* match, chosen by the version (second) group alone; the URL handed to the
\* resolution step is the first group joined against the page URL, the version
\* is the second group.
C16_ComboPairFromOneMatch ==
    (cfg.pattern = 2 /\ Happened("page_ok")) =>
        LET ms == findall(html, "pattern")
            r == Extract(ComboOnly(cfg), html)
        IN  /\ Extract(cfg, html) = r
            /\ exc = r.exc \/ (r.exc = "none" /\ exc \in FetchErrors)
            /\ Happened("extracted") =>
                 /\ ms = <<>> => latest_url = NoneV /\ latest_version = NoneV
                 /\ ms # <<>> =>
                      /\ \E i \in 1..Len(ms) : <<latest_url, latest_version>> = ms[i]
                      /\ SortMatches(cfg) =>
                            LatestOf(ms, "ComboKey", <<latest_url, latest_version>>)
                      /\ ~SortMatches(cfg) => <<latest_url, latest_version>> = ms[1]
            /\ metaFetches > 0 => abs_url = urljoin(PageUrl, latest_url)
            /\ setNewVersionCalls > 0 =>
                 /\ new_version.version = latest_version
                 /\ new_version.url = abs_url

C16_Witness ==
    /\ cfg.pattern = 2 /\ cfg.version_pattern = 1 /\ cfg.url_pattern = 2
    /\ cfg.url_template = <<"/", "a", "$version">>
    /\ cfg.sort_matches = "true"
    /\ html = <<[u |-> <<"/", "a", "9">>, v |-> <<"1", ".", "9">>],
                [u |-> <<"/", "a", "2">>, v |-> <<"2", ".", "0">>]>>
    /\ latest_url = <<"/", "a", "2">> /\ latest_version = <<"2", ".", "0">>
    /\ abs_url = <<"h", ":", "/", "a", "2">>
    /\ new_version.url = abs_url /\ new_version.version = latest_version

\* C18: a check that ends by raising has not written the record: its state and
\* its version descriptor are what they were when check was called.
C18_RaiseLeavesRecord ==
    exc # "none" =>
        /\ pc = "done"
        /\ RecordUntouched
        /\ ~Happened("state_broken") /\ ~Happened("set_new_version")

C18_Witness ==
    /\ exc = "OtherError"
    /\ metaResult.kind = "OtherError"
    /\ state0 = "OK" /\ state = "OK"
    /\ new_version = NoDescriptor

AloneOutcome(c, s, arrived, page, meta) ==
    LET untouched == [state |-> s, new_version |-> NoDescriptor]
        r == Extract(c, page)
    IN  IF ~Precondition(c) \/ ~arrived THEN untouched
        ELSE IF r.exc # "none" \/ Missing(r.version, r.url) THEN untouched
        ELSE IF meta.kind = "ok"
        THEN [state |-> s, new_version |-> [meta.info EXCEPT !.version = r.version]]
        ELSE IF meta.kind \in TransportErrors
        THEN [state |-> "BROKEN", new_version |-> NoDescriptor]
        ELSE untouched

\* the record of the check with frame f is as the check alone leaves it, and
\* as it was given while the check has not written
AsAlone(f) ==
    LET arrived == \E i \in 1..Len(f.trace) : f.trace[i] = "page_ok"
        o == AloneOutcome(f.cfg, f.state0, arrived, f.html, f.metaResult)
    IN  /\ f.pc = "done" => f.state = o.state /\ f.new_version = o.new_version
        /\ f.pc # "done" => f.state = f.state0 /\ f.new_version = NoDescriptor

\* C17: with the checks of two records in flight and interleaved at their page
\* fetch and metadata fetch, each record ends with the state and the version
\* descriptor that its check alone gives it.
C17_InterleavedAsAlone ==
    AsAlone(Running) /\ AsAlone(parked)

C17_Witness ==
    /\ pc = "done" /\ setNewVersionCalls = 1
    /\ new_version.version = <<"2", ".", "0">>
    /\ parked.pc = "meta_fetch"
    /\ parked.latest_version = <<"1", ".", "9">>
    /\ parked.state0 = "BROKEN"

====
